---- MODULE Spec2Model ----
(***************************************************************************)
(* Model of ResumeNERExtractor (src/modules/ner_predictor.py): the two     *)
(* rule-based extractors, the spaCy adapter, the merge of their outputs    *)
(* and the predict pipeline around them.                                   *)
(*                                                                         *)
(* A Python str is a sequence of characters; a character is a one-letter   *)
(* string, except the two non-ASCII characters the patterns reach, which   *)
(* are written by code point: "U+00EA" (LATIN SMALL LETTER E WITH          *)
(* CIRCUMFLEX, the second letter of "Tên"), "U+00CA" (its capital) and     *)
(* "U+1680" (OGHAM SPACE MARK, a whitespace character inside the range     *)
(* À-ỹ of the name patterns).                                              *)
(* Offsets in spans are Python's: 0-based, half-open.                      *)
(***************************************************************************)
EXTENDS Integers, Sequences, FiniteSets, TLC

\* ------------------------------------------------------------ bounds
MaxFrags == 4
MaxNameFrags == 4
MaxPages == 2
MaxEnts == 2
MaxListLen == 3

\* ------------------------------------------------------- characters
NL == "\n"
SP == " "
OGHAM == "U+1680"
ECIRC == "U+00EA"
ECIRC_UP == "U+00CA"

AsciiLower ==
    {"a","b","c","d","e","f","g","h","i","j","k","l","m",
     "n","o","p","q","r","s","t","u","v","w","x","y","z"}

AsciiUpper ==
    {"A","B","C","D","E","F","G","H","I","J","K","L","M",
     "N","O","P","Q","R","S","T","U","V","W","X","Y","Z"}

Digit == {"0","1","2","3","4","5","6","7","8","9"}

\* str.lower() on one character
LowerMap ==
    ("A" :> "a") @@ ("B" :> "b") @@ ("C" :> "c") @@ ("D" :> "d") @@
    ("E" :> "e") @@ ("F" :> "f") @@ ("G" :> "g") @@ ("H" :> "h") @@
    ("I" :> "i") @@ ("J" :> "j") @@ ("K" :> "k") @@ ("L" :> "l") @@
    ("M" :> "m") @@ ("N" :> "n") @@ ("O" :> "o") @@ ("P" :> "p") @@
    ("Q" :> "q") @@ ("R" :> "r") @@ ("S" :> "s") @@ ("T" :> "t") @@
    ("U" :> "u") @@ ("V" :> "v") @@ ("W" :> "w") @@ ("X" :> "x") @@
    ("Y" :> "y") @@ ("Z" :> "z")

LowerChar(c) ==
    IF c \in AsciiUpper THEN LowerMap[c]
    ELSE IF c = ECIRC_UP THEN ECIRC
    ELSE c

\* str.lower()
Lower(s) == [i \in 1..Len(s) |-> LowerChar(s[i])]

\* the characters str.isspace() holds of, which are also the regex class \s
Whitespace == {SP, NL, OGHAM}

\* x in s, for strings
Contains(s, w) ==
    \E i \in 1..(Len(s) - Len(w) + 1) : SubSeq(s, i, i + Len(w) - 1) = w

\* s.count(c), for one character c
Count(s, c) == Cardinality({i \in 1..Len(s) : s[i] = c})

\* str.strip()
RECURSIVE LStrip(_)
LStrip(s) ==
    IF s # <<>> /\ Head(s) \in Whitespace THEN LStrip(Tail(s)) ELSE s

RECURSIVE RStrip(_)
RStrip(s) ==
    IF s # <<>> /\ s[Len(s)] \in Whitespace
    THEN RStrip(SubSeq(s, 1, Len(s) - 1))
    ELSE s

Strip(s) == RStrip(LStrip(s))

\* text[start:end]
Slice(s, start, end) == SubSeq(s, start + 1, end)

RECURSIVE Flatten(_)
Flatten(ss) == IF ss = <<>> THEN <<>> ELSE Head(ss) \o Flatten(Tail(ss))

\* ----------------------------------------------- regular expressions
\* Python's re is a backtracking matcher.  Ends(n, p, txt) is the sequence
\* of positions at which a match of node n started at position p (1-based)
\* can end, in the order the matcher tries them; the first is the one taken.
RSet(S) == [t |-> "set", s |-> S]
RLit(w) == [t |-> "lit", w |-> w]
RCat(xs) == [t |-> "cat", xs |-> xs]
RAlt(xs) == [t |-> "alt", xs |-> xs]
RStar(x) == [t |-> "star", x |-> x]
RPlus(x) == [t |-> "plus", x |-> x]
ROpt(x) == [t |-> "opt", x |-> x]
RBol == [t |-> "bol"]
REol == [t |-> "eol"]

RECURSIVE Ends(_, _, _), EndsAll(_, _, _), CatEnds(_, _, _, _), AltEnds(_, _, _, _)

\* the ends of n from each start in ps, in order
EndsAll(n, ps, txt) ==
    IF ps = <<>> THEN <<>>
    ELSE Ends(n, Head(ps), txt) \o EndsAll(n, Tail(ps), txt)

CatEnds(xs, i, ps, txt) ==
    IF i > Len(xs) THEN ps
    ELSE CatEnds(xs, i + 1, EndsAll(xs[i], ps, txt), txt)

AltEnds(xs, i, p, txt) ==
    IF i > Len(xs) THEN <<>>
    ELSE Ends(xs[i], p, txt) \o AltEnds(xs, i + 1, p, txt)

Ends(n, p, txt) ==
    CASE n.t = "set" ->
            IF p <= Len(txt) /\ txt[p] \in n.s THEN <<p + 1>> ELSE <<>>
      [] n.t = "lit" ->
            IF p + Len(n.w) - 1 <= Len(txt)
               /\ SubSeq(txt, p, p + Len(n.w) - 1) = n.w
            THEN <<p + Len(n.w)>> ELSE <<>>
      [] n.t = "cat" -> CatEnds(n.xs, 1, <<p>>, txt)
      [] n.t = "alt" -> AltEnds(n.xs, 1, p, txt)
      [] n.t = "star" ->
            EndsAll(n, SelectSeq(Ends(n.x, p, txt), LAMBDA e : e > p), txt)
            \o <<p>>
      [] n.t = "plus" -> EndsAll(RStar(n.x), Ends(n.x, p, txt), txt)
      [] n.t = "opt" -> Ends(n.x, p, txt) \o <<p>>
      [] n.t = "bol" ->
            IF p = 1 \/ txt[p - 1] = NL THEN <<p>> ELSE <<>>
      [] n.t = "eol" ->
            IF p = Len(txt) + 1 \/ txt[p] = NL THEN <<p>> ELSE <<>>

\* A pattern is pre (group) post.  The match at position p: the first
\* (group start, group end, end) in backtracking order, or none.
RECURSIVE FirstPost(_, _, _), FirstGroup(_, _, _)

FirstPost(pat, ges, txt) ==
    IF ges = <<>> THEN <<>>
    ELSE LET es == Ends(pat.post, Head(ges), txt)
         IN  IF es # <<>> THEN <<[ge |-> Head(ges), e |-> Head(es)]>>
             ELSE FirstPost(pat, Tail(ges), txt)

FirstGroup(pat, gss, txt) ==
    IF gss = <<>> THEN <<>>
    ELSE LET r == FirstPost(pat, Ends(pat.grp, Head(gss), txt), txt)
         IN  IF r # <<>>
             THEN <<[gs |-> Head(gss), ge |-> r[1].ge, e |-> r[1].e]>>
             ELSE FirstGroup(pat, Tail(gss), txt)

\* re.match at position p: <<>> or <<m>>, m in Python offsets:
\* m.start = match.start(), m.end = match.end(),
\* m.gstart = match.start(1), m.gend = match.end(1)
MatchAt(pat, p, txt) ==
    LET r == FirstGroup(pat, Ends(pat.pre, p, txt), txt)
    IN  IF r = <<>> THEN <<>>
        ELSE <<[start |-> p - 1, end |-> r[1].e - 1,
                gstart |-> r[1].gs - 1, gend |-> r[1].ge - 1]>>

\* re.finditer: leftmost matches, scanning on from the end of each match
RECURSIVE FindIterFrom(_, _, _)
FindIterFrom(pat, p, txt) ==
    IF p > Len(txt) + 1 THEN <<>>
    ELSE LET m == MatchAt(pat, p, txt)
         IN  IF m = <<>> THEN FindIterFrom(pat, p + 1, txt)
             ELSE m \o FindIterFrom(pat, IF m[1].end + 1 > p THEN m[1].end + 1
                                                       ELSE p + 1, txt)

FindIter(pat, txt) == FindIterFrom(pat, 1, txt)

\* ------------------------------------------------ ordered dictionary
\* A Python dict: keys in order of first insertion, a later store to a key
\* replaces its value in place.
RECURSIVE DictHas(_, _)
DictHas(d, k) ==
    IF d = <<>> THEN FALSE
    ELSE Head(d).key = k \/ DictHas(Tail(d), k)

\* mutant: a store to a key already there is dropped
DictStoreKeepsFirst(d, k, v) ==
    IF DictHas(d, k) THEN d ELSE Append(d, [key |-> k, val |-> v])

DictStore(d, k, v) ==
    IF DictHas(d, k)
    THEN [i \in 1..Len(d) |-> IF d[i].key = k THEN [key |-> k, val |-> v] ELSE d[i]]
    ELSE Append(d, [key |-> k, val |-> v])

DictValues(d) == [i \in 1..Len(d) |-> d[i].val]

\* --------------------------------------------- extract_emails_by_rules
EmailLocalClass == AsciiLower \cup AsciiUpper \cup Digit \cup {".", "_", "%", "+", "-"}
EmailDomainClass == AsciiLower \cup AsciiUpper \cup Digit \cup {".", "-"}
AsciiLetter == AsciiLower \cup AsciiUpper

\* [a-zA-Z0-9._%+-]+@[a-zA-Z0-9.-]+\.[a-zA-Z]{2,}
email_pattern ==
    [pre |-> RCat(<<>>),
     grp |-> RCat(<<RPlus(RSet(EmailLocalClass)), RSet({"@"}),
                    RPlus(RSet(EmailDomainClass)), RSet({"."}),
                    RSet(AsciiLetter), RSet(AsciiLetter),
                    RStar(RSet(AsciiLetter))>>),
     post |-> RCat(<<>>)]

HTTP == <<"h","t","t","p",":","/","/">>
HTTPS == <<"h","t","t","p","s",":","/","/">>
GITHUB == <<"g","i","t","h","u","b">>
LINKEDIN == <<"l","i","n","k","e","d","i","n">>
DOTGIT == <<".","g","i","t">>

\* mutant: the substrings are looked for in email, not in email.lower()
EmailRuleRejectsCased(email) ==
    \/ \E x \in {HTTP, HTTPS, GITHUB, LINKEDIN} : Contains(email, x)
    \/ Count(email, "@") # 1
    \/ Contains(email, DOTGIT)

\* lines 34-37: TRUE when the match is skipped
EmailRuleRejects(email) ==
    \/ \E x \in {HTTP, HTTPS, GITHUB, LINKEDIN} : Contains(Lower(email), x)
    \/ Count(email, "@") # 1
    \/ Contains(email, DOTGIT)

RECURSIVE EmailSpans(_, _)
EmailSpans(ms, txt) ==
    IF ms = <<>> THEN <<>>
    ELSE LET m == Head(ms)
             email == Slice(txt, m.start, m.end)
         IN  IF EmailRuleRejects(email) THEN EmailSpans(Tail(ms), txt)
             ELSE <<[text |-> email, start |-> m.start, end |-> m.end,
                     source |-> "rule-based", confidence |-> "none"]>>
                  \o EmailSpans(Tail(ms), txt)

\* mutant: the first span of a text is the one kept
RECURSIVE DictByTextKeepsFirst(_, _)
DictByTextKeepsFirst(d, es) ==
    IF es = <<>> THEN d
    ELSE DictByTextKeepsFirst(
             IF DictHas(d, Head(es).text) THEN d
             ELSE Append(d, [key |-> Head(es).text, val |-> Head(es)]),
             Tail(es))

\* {e["text"]: e for e in emails}
RECURSIVE DictByText(_, _)
DictByText(d, es) ==
    IF es = <<>> THEN d
    ELSE DictByText(DictStore(d, Head(es).text, Head(es)), Tail(es))

extract_emails_by_rules(txt) ==
    DictValues(DictByText(<<>>, EmailSpans(FindIter(email_pattern, txt), txt)))

\* ---------------------------------------------- extract_names_by_rules
\* [A-ZÀ-ỹ] and [a-zà-ỹ]: À-ỹ is U+00C0..U+1EF9, à-ỹ is U+00E0..U+1EF9
NameUpperClass == AsciiUpper \cup {ECIRC_UP, ECIRC, OGHAM}
NameLowerClass == AsciiLower \cup {ECIRC, OGHAM}

\* [A-ZÀ-ỹ][a-zà-ỹ]+
NameWord == RCat(<<RSet(NameUpperClass), RPlus(RSet(NameLowerClass))>>)

\* ([A-ZÀ-ỹ][a-zà-ỹ]+(?:\s+[A-ZÀ-ỹ][a-zà-ỹ]+)*)
NameGroup ==
    RCat(<<NameWord, RStar(RCat(<<RPlus(RSet(Whitespace)), NameWord>>))>>)

\* (?:Full\s+Name|Full\s+name|Name|Tên)\s*:?\s*(...)
name_pattern_1 ==
    [pre |-> RCat(<<RAlt(<<RCat(<<RLit(<<"F","u","l","l">>), RPlus(RSet(Whitespace)),
                                 RLit(<<"N","a","m","e">>)>>),
                           RCat(<<RLit(<<"F","u","l","l">>), RPlus(RSet(Whitespace)),
                                 RLit(<<"n","a","m","e">>)>>),
                           RLit(<<"N","a","m","e">>),
                           RLit(<<"T",ECIRC,"n">>)>>),
                    RStar(RSet(Whitespace)), ROpt(RSet({":"})),
                    RStar(RSet(Whitespace))>>),
     grp |-> NameGroup,
     post |-> RCat(<<>>)]

\* ^##\s+(...)$ under re.MULTILINE
name_pattern_2 ==
    [pre |-> RCat(<<RBol, RLit(<<"#","#">>), RPlus(RSet(Whitespace))>>),
     grp |-> NameGroup,
     post |-> REol]

patterns ==
    <<[pattern |-> name_pattern_1, confidence |-> "0.9"],
      [pattern |-> name_pattern_2, confidence |-> "0.8"]>>

NameMinLen == 3
NameMaxLen == 50

\* lines 66-71: TRUE when the candidate is skipped
NameRejects(name) ==
    \/ Len(name) < NameMinLen \/ Len(name) > NameMaxLen
    \/ Count(name, "@") > 0
    \/ Contains(Lower(name), <<"h","t","t","p">>)
    \/ \E x \in {<<"e","m","a","i","l">>, <<"p","h","o","n","e">>,
                 <<"a","d","d","r","e","s","s">>} : Contains(Lower(name), x)

\* mutant: the comparison is of the texts as they are
NameAlreadyExistsCased(names, name) ==
    \E i \in 1..Len(names) : names[i].text = name

\* line 74: any(n["text"].lower() == name.lower() for n in names)
NameAlreadyExists(names, name) ==
    \E i \in 1..Len(names) : Lower(names[i].text) = Lower(name)

\* the inner loop (lines 62-81) over the matches of one pattern
RECURSIVE NamesOfMatches(_, _, _, _)
NamesOfMatches(names, ms, confidence, txt) ==
    IF ms = <<>> THEN names
    ELSE LET m == Head(ms)
             name == Strip(Slice(txt, m.gstart, m.gend))
         IN  IF NameRejects(name) \/ NameAlreadyExists(names, name)
             THEN NamesOfMatches(names, Tail(ms), confidence, txt)
             ELSE NamesOfMatches(
                      Append(names, [text |-> name, start |-> m.gstart,
                                     end |-> m.gend, source |-> "rule-based",
                                     confidence |-> confidence]),
                      Tail(ms), confidence, txt)

\* the outer loop (line 60) over the patterns
RECURSIVE NamesOfPatterns(_, _, _)
NamesOfPatterns(names, ps, txt) ==
    IF ps = <<>> THEN names
    ELSE NamesOfPatterns(
             NamesOfMatches(names, FindIter(Head(ps).pattern, txt),
                            Head(ps).confidence, txt),
             Tail(ps), txt)

extract_names_by_rules(txt) == NamesOfPatterns(<<>>, patterns, txt)

\* ---------------------------------------------------- extract_by_spacy
\* The labels a trained model can emit are the labels of its training
\* annotations, whatever they are; "PHONE" stands for any label other than
\* the two the extractor has a list for.
Labels == {"NAME", "EMAIL", "PHONE"}

\* lines 100-104: TRUE when an EMAIL entity is skipped
SpacyEmailRejects(entity_text) ==
    \/ \E x \in {HTTP, GITHUB, DOTGIT} : Contains(Lower(entity_text), x)
    \/ Count(entity_text, "@") # 1

\* the loop of lines 95-111; entities[label] of a label that is no key of
\* entities raises KeyError, which nothing catches
RECURSIVE SpacyLoop(_, _)
SpacyLoop(entities, ents) ==
    IF ents = <<>> THEN entities
    ELSE LET ent == Head(ents)
             span == [text |-> ent.text, start |-> ent.start_char,
                      end |-> ent.end_char, source |-> "spacy",
                      confidence |-> "none"]
         IN  IF ent.label = "EMAIL" /\ SpacyEmailRejects(ent.text)
             THEN SpacyLoop(entities, Tail(ents))
             ELSE IF ent.label \notin {"NAME", "EMAIL"}
             THEN [entities EXCEPT !.raised = TRUE]
             ELSE SpacyLoop([entities EXCEPT ![ent.label] = Append(@, span)],
                            Tail(ents))

extract_by_spacy(ents) ==
    SpacyLoop([raised |-> FALSE, NAME |-> <<>>, EMAIL |-> <<>>], ents)

\* ----------------------------------------------------- _merge_entities
\* mutant: the key is the text as it is
MergeKeyCased(ent) == ent.text

\* lines 148 and 153: key = ent["text"].lower()
MergeKey(ent) == Lower(ent.text)

RECURSIVE MergeRule(_, _)
MergeRule(merged, rule_ents) ==
    IF rule_ents = <<>> THEN merged
    ELSE MergeRule(DictStore(merged, MergeKey(Head(rule_ents)), Head(rule_ents)),
                   Tail(rule_ents))

\* mutant: a spaCy entity is stored whether or not its key is there
SpacyAlwaysInserts(merged, key) == TRUE

\* line 154: if key not in merged
SpacyMayInsert(merged, key) == ~DictHas(merged, key)

RECURSIVE MergeSpacy(_, _)
MergeSpacy(merged, spacy_ents) ==
    IF spacy_ents = <<>> THEN merged
    ELSE LET key == MergeKey(Head(spacy_ents))
         IN  MergeSpacy(IF SpacyMayInsert(merged, key)
                        THEN DictStore(merged, key, Head(spacy_ents))
                        ELSE merged,
                        Tail(spacy_ents))

merge_entities(rule_ents, spacy_ents) ==
    DictValues(MergeSpacy(MergeRule(<<>>, rule_ents), spacy_ents))

\* --------------------------------------------------------- pdf_to_text
NoneText == [none |-> TRUE, s |-> <<>>]
Str(s) == [none |-> FALSE, s |-> s]

\* mutant: only None is falsy
TruthyUnlessNone(t) == ~t.none

\* Python truthiness of an Optional[str]
Truthy(t) == ~t.none /\ t.s # <<>>

\* lines 170-173
RECURSIVE PagesText(_)
PagesText(pages) ==
    IF pages = <<>> THEN <<>>
    ELSE (IF Truthy(Head(pages)) THEN Head(pages).s \o <<NL>> ELSE <<>>)
         \o PagesText(Tail(pages))

pdf_to_text(doc) ==
    IF ~doc.exists THEN NoneText
    ELSE IF doc.raises THEN NoneText
    ELSE Str(Strip(PagesText(doc.pages)))

\* --------------------------------------------------------------- state
VARIABLES
    pc,              \* where the call is
    pdf,             \* the file at pdf_path
    output_json,     \* whether predict got an output_json
    text,            \* the text the extractors run on
    doc_ents,        \* doc.ents, what the model returned for text
    rule_emails, rule_names, spacy_entities, final_entities,
    result,          \* what predict returns
    output_file,     \* the file at output_json: <<>> or <<what was dumped>>
    calls,           \* the functions called so far
    rule_ents, spacy_ents, merged   \* _merge_entities on its own

vars == <<pc, pdf, output_json, text, doc_ents, rule_emails, rule_names,
          spacy_entities, final_entities, result, output_file, calls,
          rule_ents, spacy_ents, merged>>

NoPdf == [exists |-> FALSE, raises |-> FALSE, pages |-> <<>>]
NoEntities == [raised |-> FALSE, NAME |-> <<>>, EMAIL |-> <<>>]
NoResult == [none |-> TRUE]

\* what every specification starts from, the inputs aside
Blank ==
    /\ doc_ents = <<>>
    /\ rule_emails = <<>>
    /\ rule_names = <<>>
    /\ spacy_entities = NoEntities
    /\ final_entities = NoEntities
    /\ result = NoResult
    /\ output_file = <<>>
    /\ calls = {}
    /\ merged = <<>>

FragA == <<"a","@","x",".","c","o">>
FragAUpper == <<"A","@","x",".","c","o">>
LinkedInMixed == <<"L","i","n","k","e","d","I","n">>

EmailFrags ==
    {FragA, FragAUpper, <<"b","@">>, <<SP>>, GITHUB, LinkedInMixed, DOTGIT,
     HTTPS, <<".","i","o">>}

NameFrags ==
    {<<"N","a","m","e",":">>, <<"F","u","l","l",SP>>, <<"#","#",SP>>,
     <<"A","b","c">>, <<"A","b">>, <<ECIRC_UP,"b","c">>, <<ECIRC,"b","c">>,
     <<SP>>, <<NL>>, <<OGHAM>>, <<"E","m","a","i","l">>, FragA}

TextsOf(frags, n) ==
    {Flatten(fs) : fs \in UNION {[1..k -> frags] : k \in 0..n}}

\* ------------------------------ extract_emails_by_rules on its own
InitEmails ==
    /\ pc = "emails"
    /\ text \in {Str(t) : t \in TextsOf(EmailFrags, MaxFrags)}
    /\ pdf = NoPdf /\ output_json = FALSE
    /\ rule_ents = <<>> /\ spacy_ents = <<>>
    /\ Blank

RunExtractEmails ==
    /\ pc = "emails"
    /\ rule_emails' = extract_emails_by_rules(text.s)
    /\ pc' = "done"
    /\ UNCHANGED <<pdf, output_json, text, doc_ents, rule_names, spacy_entities,
                   final_entities, result, output_file, calls, rule_ents,
                   spacy_ents, merged>>

NextEmails == RunExtractEmails

SpecEmails == InitEmails /\ [][NextEmails]_vars

\* ----------------------------------- both rule extractors on one text
InitRules ==
    /\ pc = "rule_emails"
    /\ text \in {Str(t) : t \in TextsOf(NameFrags, MaxNameFrags)}
    /\ pdf = NoPdf /\ output_json = FALSE
    /\ rule_ents = <<>> /\ spacy_ents = <<>>
    /\ Blank

RulesExtractEmails ==
    /\ pc = "rule_emails"
    /\ rule_emails' = extract_emails_by_rules(text.s)
    /\ pc' = "rule_names"
    /\ UNCHANGED <<pdf, output_json, text, doc_ents, rule_names, spacy_entities,
                   final_entities, result, output_file, calls, rule_ents,
                   spacy_ents, merged>>

RulesExtractNames ==
    /\ pc = "rule_names"
    /\ rule_names' = extract_names_by_rules(text.s)
    /\ pc' = "done"
    /\ UNCHANGED <<pdf, output_json, text, doc_ents, rule_emails, spacy_entities,
                   final_entities, result, output_file, calls, rule_ents,
                   spacy_ents, merged>>

NextRules == RulesExtractEmails \/ RulesExtractNames

SpecRules == InitRules /\ [][NextRules]_vars

\* ---------------------------------------- _merge_entities on its own
\* Candidate spans of one entity type: texts that repeat, differ only in
\* case, or differ.
RuleSpan(t, at) ==
    [text |-> t, start |-> at, end |-> at + Len(t), source |-> "rule-based",
     confidence |-> "0.9"]

SpacySpan(t, at) ==
    [text |-> t, start |-> at, end |-> at + Len(t), source |-> "spacy",
     confidence |-> "none"]

RuleSpans ==
    {RuleSpan(<<"A","b">>, 0), RuleSpan(<<"a","b">>, 3),
     RuleSpan(<<"A","b">>, 6), RuleSpan(<<"c","d">>, 9)}

SpacySpans ==
    {SpacySpan(<<"a","b">>, 3), SpacySpan(<<"A","B">>, 6),
     SpacySpan(<<"c","d">>, 9), SpacySpan(<<"e","f">>, 12)}

ListsOf(S, n) == UNION {[1..k -> S] : k \in 0..n}

InitMerge ==
    /\ pc = "merge"
    /\ rule_ents \in ListsOf(RuleSpans, MaxListLen)
    /\ spacy_ents \in ListsOf(SpacySpans, MaxListLen)
    /\ text = NoneText /\ pdf = NoPdf /\ output_json = FALSE
    /\ Blank

RunMerge ==
    /\ pc = "merge"
    /\ merged' = merge_entities(rule_ents, spacy_ents)
    /\ pc' = "done"
    /\ UNCHANGED <<pdf, output_json, text, doc_ents, rule_emails, rule_names,
                   spacy_entities, final_entities, result, output_file, calls,
                   rule_ents, spacy_ents>>

NextMerge == RunMerge

SpecMerge == InitMerge /\ [][NextMerge]_vars

\* ------------------------------------------------------------- predict
\* page.extract_text() of a page: None, or a string
PageTexts ==
    {NoneText, Str(<<>>), Str(<<SP>>),
     Str(<<"N","a","m","e",":",SP,"A","b","c">>),
     Str(FragAUpper \o <<SP>> \o FragA),
     Str(<<"b","@">> \o LINKEDIN \o <<".","i","o">>),
     Str(<<"N","a","m","e",":",ECIRC_UP,"b","c",",",
           "N","a","m","e",":",ECIRC,"b","c">>)}

Pdfs ==
    {NoPdf, [exists |-> TRUE, raises |-> TRUE, pages |-> <<>>]}
    \cup {[exists |-> TRUE, raises |-> FALSE, pages |-> ps] :
            ps \in ListsOf(PageTexts, MaxPages)}

\* self.nlp(text).ents: the model is a parameter of the extractor, so its
\* answer is any sequence of labelled words of the text, in text order.
WordStarts(txt) ==
    {i \in 1..Len(txt) : txt[i] \notin Whitespace
                         /\ (i = 1 \/ txt[i - 1] \in Whitespace)}

WordEnd(txt, i) ==
    CHOOSE j \in i..Len(txt) :
        /\ \A k \in i..j : txt[k] \notin Whitespace
        /\ (j = Len(txt) \/ txt[j + 1] \in Whitespace)

Ent(label, txt, i) ==
    [label |-> label, text |-> SubSeq(txt, i, WordEnd(txt, i)),
     start_char |-> i - 1, end_char |-> WordEnd(txt, i)]

EntsOf(txt) ==
    {es \in ListsOf({Ent(l, txt, i) : l \in Labels, i \in WordStarts(txt)}, MaxEnts) :
        \A a, b \in 1..Len(es) : a < b => es[a].end_char <= es[b].start_char}

Init ==
    /\ pc = "predict"
    /\ pdf \in Pdfs
    /\ output_json \in BOOLEAN
    /\ text = NoneText
    /\ rule_ents = <<>> /\ spacy_ents = <<>>
    /\ Blank

\* line 195
PdfToText ==
    /\ pc = "predict"
    /\ text' = pdf_to_text(pdf)
    /\ calls' = calls \cup {"pdf_to_text"}
    /\ pc' = "check_text"
    /\ UNCHANGED <<pdf, output_json, doc_ents, rule_emails, rule_names,
                   spacy_entities, final_entities, result, output_file,
                   rule_ents, spacy_ents, merged>>

\* lines 196-197
ReturnNoText ==
    /\ pc = "check_text"
    /\ ~Truthy(text)
    /\ result' = NoResult
    /\ pc' = "returned"
    /\ UNCHANGED <<pdf, output_json, text, doc_ents, rule_emails, rule_names,
                   spacy_entities, final_entities, output_file, calls,
                   rule_ents, spacy_ents, merged>>

\* line 203 into line 127
ExtractEmails ==
    /\ pc = "check_text"
    /\ Truthy(text)
    /\ rule_emails' = extract_emails_by_rules(text.s)
    /\ calls' = calls \cup {"extract_entities", "extract_emails_by_rules"}
    /\ pc' = "names"
    /\ UNCHANGED <<pdf, output_json, text, doc_ents, rule_names,
                   spacy_entities, final_entities, result, output_file,
                   rule_ents, spacy_ents, merged>>

\* line 128
ExtractNames ==
    /\ pc = "names"
    /\ rule_names' = extract_names_by_rules(text.s)
    /\ calls' = calls \cup {"extract_names_by_rules"}
    /\ pc' = "spacy"
    /\ UNCHANGED <<pdf, output_json, text, doc_ents, rule_emails,
                   spacy_entities, final_entities, result, output_file,
                   rule_ents, spacy_ents, merged>>

\* line 131; a KeyError leaves predict without a return value
ExtractBySpacy ==
    /\ pc = "spacy"
    /\ \E ents \in EntsOf(text.s) :
          /\ doc_ents' = ents
          /\ spacy_entities' = extract_by_spacy(ents)
    /\ calls' = calls \cup {"extract_by_spacy"}
    /\ pc' = IF spacy_entities'.raised THEN "raised" ELSE "merge"
    /\ UNCHANGED <<pdf, output_json, text, rule_emails, rule_names,
                   final_entities, result, output_file, rule_ents, spacy_ents,
                   merged>>

\* lines 134-139
MergeEntities ==
    /\ pc = "merge"
    /\ final_entities' =
          [raised |-> FALSE,
           NAME |-> merge_entities(rule_names, spacy_entities.NAME),
           EMAIL |-> merge_entities(rule_emails, spacy_entities.EMAIL)]
    /\ calls' = calls \cup {"_merge_entities"}
    /\ pc' = "format"
    /\ UNCHANGED <<pdf, output_json, text, doc_ents, rule_emails, rule_names,
                   spacy_entities, result, output_file, rule_ents, spacy_ents,
                   merged>>

TextsOfSpans(es) == [i \in 1..Len(es) |-> es[i].text]

\* lines 206-233
FormatAndSave ==
    /\ pc = "format"
    /\ result' = [none |-> FALSE,
                  name |-> TextsOfSpans(final_entities.NAME),
                  email |-> TextsOfSpans(final_entities.EMAIL),
                  names |-> final_entities.NAME,
                  emails |-> final_entities.EMAIL]
    /\ output_file' = IF output_json THEN <<result'>> ELSE output_file
    /\ pc' = "returned"
    /\ UNCHANGED <<pdf, output_json, text, doc_ents, rule_emails, rule_names,
                   spacy_entities, final_entities, calls, rule_ents,
                   spacy_ents, merged>>

Next ==
    \/ PdfToText
    \/ ReturnNoText
    \/ ExtractEmails
    \/ ExtractNames
    \/ ExtractBySpacy
    \/ MergeEntities
    \/ FormatAndSave

Spec == Init /\ [][Next]_vars

\* ============================================================= claims

\* no two spans of l with equal text.lower()
NoDupLower(l) ==
    \A i, j \in 1..Len(l) : i # j => Lower(l[i].text) # Lower(l[j].text)

\* no two spans of l with equal text
NoDupText(l) ==
    \A i, j \in 1..Len(l) : i # j => l[i].text # l[j].text

\* the increasing sequence of a set of indices
RECURSIVE Sorted(_)
Sorted(S) ==
    IF S = {} THEN <<>>
    ELSE LET m == CHOOSE x \in S : \A y \in S : x <= y
         IN  <<m>> \o Sorted(S \ {m})

\* ------------------------------------------------------------------ C1
\* C1: whatever the two lists given to _merge_entities, repeats and case
\* variants included, no two entries of the list it returns have the same
\* text.lower().
C1_DedupInvariant ==
    pc = "done" => NoDupLower(merged)

C1_Witness ==
    /\ pc = "done"
    /\ ~NoDupLower(rule_ents)
    /\ ~NoDupLower(spacy_ents)
    /\ ~NoDupText(rule_ents)
    /\ Len(merged) >= 2

\* ------------------------------------------------------------------ C2
\* C2: when a rule-based span and a spaCy span given to _merge_entities
\* have the same text.lower(), the returned list has exactly one entry of
\* that key, and it is a rule-based span of the input (its source, text,
\* offsets and confidence); the spaCy span of that key is not returned.
C2_PatternPrecedence ==
    pc = "done" =>
        \A r \in 1..Len(rule_ents), m \in 1..Len(spacy_ents) :
            Lower(rule_ents[r].text) = Lower(spacy_ents[m].text) =>
                LET hits == {k \in 1..Len(merged) :
                                Lower(merged[k].text) = Lower(rule_ents[r].text)}
                IN  /\ Cardinality(hits) = 1
                    /\ \A k \in hits :
                          /\ merged[k].source = "rule-based"
                          /\ \E q \in 1..Len(rule_ents) : merged[k] = rule_ents[q]
                          /\ merged[k] # spacy_ents[m]

C2_Witness ==
    /\ pc = "done"
    /\ \E r \in 1..Len(rule_ents), m \in 1..Len(spacy_ents) :
          /\ Lower(rule_ents[r].text) = Lower(spacy_ents[m].text)
          /\ rule_ents[r].text # spacy_ents[m].text
          /\ \E k \in 1..Len(merged) : merged[k] = rule_ents[r]
    /\ \E k \in 1..Len(merged) : merged[k].source = "spacy"

\* ------------------------------------------------------------------ C3
RuleHasKey(l, ent) ==
    \E r \in 1..Len(l) : Lower(l[r].text) = Lower(ent.text)

\* the spaCy spans whose key is the key of no rule-based span
ModelOnly == SelectSeq(spacy_ents, LAMBDA e : ~RuleHasKey(rule_ents, e))

\* C3 as claimed: the returned list is all the rule-based spans in their
\* order, then the spaCy spans whose text.lower() is that of no rule-based
\* span, in their order.
C3_OrderAsClaimed ==
    pc = "done" => merged = rule_ents \o ModelOnly

\* the indices of l at which a key occurs for the first time
FirstOfKey(l) ==
    {i \in 1..Len(l) :
        \A j \in 1..(i - 1) : Lower(l[j].text) # Lower(l[i].text)}

\* the last index of l with the key of l[i]
LastOfKey(l, i) ==
    CHOOSE j \in 1..Len(l) :
        /\ Lower(l[j].text) = Lower(l[i].text)
        /\ \A k \in (j + 1)..Len(l) : Lower(l[k].text) # Lower(l[i].text)

RuleKept ==
    LET first == Sorted(FirstOfKey(rule_ents))
    IN  [k \in 1..Len(first) |-> rule_ents[LastOfKey(rule_ents, first[k])]]

ModelKept ==
    LET first == Sorted({i \in FirstOfKey(spacy_ents) :
                            ~RuleHasKey(rule_ents, spacy_ents[i])})
    IN  [k \in 1..Len(first) |-> spacy_ents[first[k]]]

\* C3, amended: the returned list has one entry for each text.lower() of
\* the rule-based list, in the order in which the keys first occur and each
\* the last rule-based span of its key, then the first spaCy span of each
\* key that no rule-based span has, in their order; nothing is sorted or
\* ranked.  When neither list repeats a key, that is all the rule-based
\* spans followed by the spaCy-only spans.
C3_Order ==
    pc = "done" =>
        /\ merged = RuleKept \o ModelKept
        /\ (NoDupLower(rule_ents) /\ NoDupLower(spacy_ents)
               => merged = rule_ents \o ModelOnly)

C3_Witness ==
    /\ pc = "done"
    /\ ~NoDupLower(rule_ents)
    /\ ~NoDupLower(spacy_ents)
    /\ Len(ModelKept) >= 1
    /\ Len(RuleKept) >= 2
    /\ merged # rule_ents \o ModelOnly

\* ------------------------------------------------------------------ C4
\* the matches of the email pattern in the text, as spans
EmailMatches == FindIter(email_pattern, text.s)

MatchText(m) == Slice(text.s, m.start, m.end)

\* C4: no span returned by extract_emails_by_rules has a text that holds
\* github, linkedin, http:// or https:// in any case, holds .git, or holds
\* more than one @.
C4_EmailFilterSound ==
    pc = "done" =>
        \A i \in 1..Len(rule_emails) :
            LET t == rule_emails[i].text
            IN  /\ ~Contains(Lower(t), GITHUB)
                /\ ~Contains(Lower(t), LINKEDIN)
                /\ ~Contains(Lower(t), HTTP)
                /\ ~Contains(Lower(t), HTTPS)
                /\ ~Contains(t, DOTGIT)
                /\ Count(t, "@") <= 1

\* an email-shaped match that holds linkedin in mixed case is left out,
\* next to an email that is returned
C4_Witness ==
    /\ pc = "done"
    /\ \E i \in 1..Len(EmailMatches) :
          /\ Contains(Lower(MatchText(EmailMatches[i])), LINKEDIN)
          /\ ~Contains(MatchText(EmailMatches[i]), LINKEDIN)
          /\ \A k \in 1..Len(rule_emails) :
                rule_emails[k].start # EmailMatches[i].start
    /\ Len(rule_emails) >= 1

\* ------------------------------------------------------------------ C5
ValidSpan(span) ==
    /\ 0 <= span.start
    /\ span.start < span.end
    /\ span.end <= Len(text.s)
    /\ Slice(text.s, span.start, span.end) = span.text

\* C5: every span returned by extract_emails_by_rules or
\* extract_names_by_rules has 0 <= start < end <= len(text) and
\* text[start:end] equal to its text.
C5_OffsetValidity ==
    pc = "done" =>
        /\ \A i \in 1..Len(rule_emails) : ValidSpan(rule_emails[i])
        /\ \A i \in 1..Len(rule_names) : ValidSpan(rule_names[i])

\* ------------------------------------------------------------------ C6
\* text extraction yields no text: no file, an error, or pages whose text
\* is empty once stripped
NoTextExtracted ==
    \/ ~pdf.exists
    \/ pdf.raises
    \/ Strip(PagesText(pdf.pages)) = <<>>

\* C6: when text extraction yields None or empty text, predict returns
\* None, having run neither rule extractor, nor the spaCy adapter, nor the
\* merge, and having written nothing to the output file.
C6_EmptyInputFailure ==
    (pc # "predict" /\ NoTextExtracted) =>
        /\ pc \in {"check_text", "returned"}
        /\ calls = {"pdf_to_text"}
        /\ result = NoResult
        /\ output_file = <<>>

\* a document whose only text is white space, with an output file asked for
C6_Witness ==
    /\ pc = "returned"
    /\ NoTextExtracted
    /\ pdf.exists /\ ~pdf.raises
    /\ \E i \in 1..Len(pdf.pages) : Truthy(pdf.pages[i])
    /\ output_json
    /\ result = NoResult

\* ------------------------------------------------------------------ C7
\* the matches that pass the filter of lines 34-37
AcceptedMatches ==
    SelectSeq(EmailMatches, LAMBDA m : ~EmailRuleRejects(MatchText(m)))

\* the spans returned for the text of match m
SpansOf(m) ==
    {k \in 1..Len(rule_emails) : rule_emails[k].text = MatchText(m)}

Repeated(i, j) ==
    /\ i < j
    /\ MatchText(AcceptedMatches[i]) = MatchText(AcceptedMatches[j])

\* C7 as claimed: of an email text matched at several positions, one span
\* is returned, with the offsets of the first occurrence.
C7_FirstOccurrence ==
    pc = "done" =>
        \A i, j \in 1..Len(AcceptedMatches) :
            Repeated(i, j) =>
                /\ Cardinality(SpansOf(AcceptedMatches[i])) = 1
                /\ \A k \in SpansOf(AcceptedMatches[i]) :
                      \A h \in 1..Len(AcceptedMatches) :
                          MatchText(AcceptedMatches[h]) = rule_emails[k].text
                              => rule_emails[k].start <= AcceptedMatches[h].start

\* C7, amended: of an email text matched at several positions, one span is
\* returned, with the offsets of the last occurrence.
C7_LastOccurrence ==
    pc = "done" =>
        \A i, j \in 1..Len(AcceptedMatches) :
            Repeated(i, j) =>
                /\ Cardinality(SpansOf(AcceptedMatches[i])) = 1
                /\ \A k \in SpansOf(AcceptedMatches[i]) :
                      /\ rule_emails[k].end - rule_emails[k].start
                            = Len(rule_emails[k].text)
                      /\ \A h \in 1..Len(AcceptedMatches) :
                            MatchText(AcceptedMatches[h]) = rule_emails[k].text
                                => rule_emails[k].start >= AcceptedMatches[h].start

\* an email text matched twice, whose one span is not at the first match
C7_Witness ==
    /\ pc = "done"
    /\ \E i, j \in 1..Len(AcceptedMatches) :
          /\ Repeated(i, j)
          /\ \E k \in SpansOf(AcceptedMatches[i]) :
                rule_emails[k].start = AcceptedMatches[j].start

\* ------------------------------------------------------------------ C8
SpacyRan == "extract_by_spacy" \in calls /\ ~spacy_entities.raised

KeptBySpacy(ent) ==
    \E k \in 1..Len(spacy_entities[ent.label]) :
        /\ spacy_entities[ent.label][k].start = ent.start_char
        /\ spacy_entities[ent.label][k].text = ent.text

\* C8: extract_by_spacy drops an EMAIL entity exactly when the filter of
\* extract_emails_by_rules rejects its text, and drops no NAME entity.
C8_SameEmailFilter ==
    SpacyRan =>
        \A i \in 1..Len(doc_ents) :
            /\ doc_ents[i].label = "EMAIL" =>
                  (KeptBySpacy(doc_ents[i]) <=> ~EmailRuleRejects(doc_ents[i].text))
            /\ doc_ents[i].label = "NAME" => KeptBySpacy(doc_ents[i])

\* ------------------------------------------------------------------ C9
\* C9: whatever labels the model returns, extract_by_spacy completes: an
\* entity labelled neither NAME nor EMAIL is dropped, the others are
\* handled as usual, and nothing is raised.
C9_ClosedLabelSet ==
    "extract_by_spacy" \in calls =>
        /\ ~spacy_entities.raised
        /\ \A i \in 1..Len(doc_ents) :
              doc_ents[i].label = "NAME" => KeptBySpacy(doc_ents[i])

\* ----------------------------------------------------------------- C10
InFinal(label, span) ==
    \E k \in 1..Len(final_entities[label]) : final_entities[label][k] = span

\* C10 as claimed: each list handed to _merge_entities by extract_entities
\* has no two spans with equal text.lower(), so that every rule-based span
\* is in the merged output as it was.
C10_CallSiteDeduplicated ==
    /\ pc = "merge" =>
          /\ NoDupLower(rule_names) /\ NoDupLower(rule_emails)
          /\ NoDupLower(spacy_entities.NAME) /\ NoDupLower(spacy_entities.EMAIL)
    /\ pc \in {"format", "returned"} /\ "_merge_entities" \in calls =>
          /\ \A i \in 1..Len(rule_names) : InFinal("NAME", rule_names[i])
          /\ \A i \in 1..Len(rule_emails) : InFinal("EMAIL", rule_emails[i])

\* C10, amended: of the lists handed to _merge_entities by extract_entities,
\* the rule-based NAME list has no two spans with equal text.lower() and the
\* rule-based EMAIL list no two spans with equal text; so every rule-based
\* NAME span is in the merged output as it was, and so is every rule-based
\* EMAIL span whose text.lower() no later rule-based EMAIL span has.  (The
\* spaCy lists are not deduplicated.)
C10_CallSite ==
    /\ pc = "merge" =>
          /\ NoDupLower(rule_names)
          /\ NoDupText(rule_emails)
    /\ pc \in {"format", "returned"} /\ "_merge_entities" \in calls =>
          /\ \A i \in 1..Len(rule_names) : InFinal("NAME", rule_names[i])
          /\ \A i \in 1..Len(rule_emails) :
                (\A j \in (i + 1)..Len(rule_emails) :
                    Lower(rule_emails[j].text) # Lower(rule_emails[i].text))
                => InFinal("EMAIL", rule_emails[i])

C10_Witness ==
    /\ pc = "returned"
    /\ "_merge_entities" \in calls
    /\ Len(rule_names) >= 1
    /\ ~NoDupLower(rule_emails)
    /\ ~NoDupLower(spacy_entities.EMAIL)
    /\ \E i \in 1..Len(rule_emails) : ~InFinal("EMAIL", rule_emails[i])

====
